---- MODULE Spec2Model ----
(***************************************************************************)
(* The vitals monitor of src/pages/VitalsMonitor.tsx as a state machine.   *)
(*                                                                         *)
(* One action is one event-loop task of the component: a click handler, a  *)
(* timer callback or the continuation of the awaited generation call,      *)
(* together with the render it causes and the effects React runs after     *)
(* that render (the telemetry effect and the auto-alert effect).           *)
(* Handlers are operators from a state record to a state record, so that   *)
(* the effects can be composed after them as the code composes them.       *)
(***************************************************************************)
EXTENDS Integers, Sequences, FiniteSets, TLC

VARIABLES
    connectionStatus,        \* useState<ConnectionStatus>
    vitals,                  \* useState<Vitals>
    vitalsHistory,           \* useState<VitalsWithTimestamp[]>
    isSendingAlert,          \* useState(false)
    alertMessage,            \* useState<string | null>
    autoAlertSentRef,        \* useRef(false)
    monitorIntervalRef,      \* TRUE while an interval is installed
    connectTimeouts,         \* setTimeout callbacks of handleConnect not yet run
    pendingCalls,            \* generateContent calls awaiting their response
    clock,                   \* interval periods elapsed (drives the timestamp)
    connects,                \* handleConnect calls so far (the session number)
    starts,                  \* generation calls started so far
    autoStartsInSession,     \* history: automatic starts since the last handleConnect
    autoFailedInSession,     \* history: an automatic call of this session was rejected
    autoStartedAfterFailure, \* history: an automatic start followed such a rejection
    criticalSeen,            \* history: a critical reading arrived in this session
    alertsInEpisode,         \* history: generated messages shown in this critical episode
    autoAlertsInSession,     \* history: automatic messages shown since the last handleConnect
    notifications,           \* showNotification calls of the monitor so far
    zoomDomain,              \* useState<[any, any]>
    refAreaLeft,             \* useState<string>: <<>> for '', <<label>> otherwise
    refAreaRight,            \* useState<string>
    browserPermission,       \* Notification.permission
    serviceWorkerSupported,  \* 'serviceWorker' in navigator
    notificationApi,         \* 'Notification' in window
    probe,                   \* input of the isCritical and notification checks
    verdict,                 \* result of isCritical
    shown,                   \* result of the notification block
    meds,                    \* Medications: useState<Medication[]>
    notificationPermission,  \* Medications: useState(Notification.permission)
    now,                     \* Date.now(), in ms
    reminderInterval,        \* <<due time>> of the checkReminders interval, <<>> if none
    notified,                \* localStorage: the notified_<id>_<HH:MM> items
    pendingShows,            \* then-callbacks waiting for navigator.serviceWorker.ready
    swReady,                 \* navigator.serviceWorker.ready has resolved
    shownNow,                \* the reminders the latest step has shown
    query,                   \* GlobalSearch: useState(''), a sequence of characters
    results,                 \* GlobalSearch: useState<SearchResult[]>
    isActive,                \* GlobalSearch: useState(false)
    searchTimers,            \* the queries of the setTimeout handlers not yet run
    superseded,               \* history: a pending search was cancelled by a new query
    swState,                 \* service worker: "parsed", "installed" or "activated"
    cacheStorage,            \* service worker: CacheStorage, the URLs held by each cache
    fetchEvents,             \* service worker: the fetch events received, with their progress
    moodHistory,             \* MentalHealth: useState<MoodEntry[]>
    storedMoods,             \* localStorage 'moodHistory': <<text>>, <<>> if no item
    today,                   \* the date of new Date().toISOString(), in days
    lastSelected             \* <<entry>> of the latest handleMoodSelect, <<>> before the first

monitorVars == <<connectionStatus, vitals, vitalsHistory, isSendingAlert, alertMessage,
                 autoAlertSentRef, monitorIntervalRef, connectTimeouts, pendingCalls,
                 clock, connects, starts, autoStartsInSession, autoFailedInSession,
                 autoStartedAfterFailure, criticalSeen, alertsInEpisode,
                 autoAlertsInSession, notifications, zoomDomain, refAreaLeft,
                 refAreaRight>>

envVars == <<browserPermission, serviceWorkerSupported, notificationApi>>

probeVars == <<probe, verdict, shown>>

medsVars == <<meds, notificationPermission, now, reminderInterval, notified,
              pendingShows, swReady, shownNow>>

searchVars == <<query, results, isActive, searchTimers, superseded>>

workerVars == <<swState, cacheStorage, fetchEvents>>

moodVars == <<moodHistory, storedMoods, today, lastSelected>>

\* the state of the other pages and components
pageVars == <<searchVars, workerVars, moodVars>>

vars == <<monitorVars, envVars, probeVars, medsVars, pageVars>>

(***************************************************************************)
(* Bounds of the model.                                                    *)
(***************************************************************************)
\* interval callbacks in one run; above MAX_HISTORY_LENGTH so that eviction happens
MaxTicks == 32
\* the first MaxVaried readings of a run are drawn freely from Readings,
\* the later ones are the Normal reading
MaxVaried == 2
\* handleConnect calls in one run
MaxConnects == 2
\* generation calls started in one run
MaxStarts == 3
\* Math.random() has RandomResolution equally likely values
RandomResolution == 1000
\* interval callbacks in one run of the simulator's specification
MaxSimTicks == 2

(***************************************************************************)
(* Program constants and values.                                           *)
(***************************************************************************)
MAX_HISTORY_LENGTH == 30

NullMsg == "null"
ResponseText == "response.text"
AlertGenerationError == "alertGenerationError"

\* a chart label is <<timestamp>>; <<>> stands for '' and for an undefined activeLabel
NoLabel == <<>>

\* a bound of the x axis is <<timestamp>>; <<>> stands for 'dataMin' / 'dataMax'
DataBound == <<>>

\* ['dataMin', 'dataMax'], the domain of the whole data
DataDomain == [from |-> DataBound, to |-> DataBound]

Reading(hr, systolic, diastolic, spo2) ==
    [hr |-> hr, systolic |-> systolic, diastolic |-> diastolic, spo2 |-> spo2]

Placeholder == Reading(0, 0, 0, 0)

\* what the simulator can produce: Math.floor(Math.random() * (hi - lo + 1)) + lo
SimulatorRange ==
    [hr : 45..140, systolic : 85..190, diastolic : 55..130, spo2 : 88..100]

\* Math.random() is k / RandomResolution for a k in 0..RandomResolution - 1
randomInt_round(lo, hi, k) ==
    ((2 * k * (hi - lo + 1) + RandomResolution) \div (2 * RandomResolution)) + lo

\* Math.floor(Math.random() * (hi - lo + 1)) + lo
randomInt(lo, hi, k) ==
    ((k * (hi - lo + 1)) \div RandomResolution) + lo

\* the four values of Math.random() one interval callback reads
Draw(hr, systolic, diastolic, spo2) ==
    [hr |-> hr, systolic |-> systolic, diastolic |-> diastolic, spo2 |-> spo2]

NewVitals(d) ==
    Reading(randomInt(45, 140, d.hr), randomInt(85, 190, d.systolic),
            randomInt(55, 130, d.diastolic), randomInt(88, 100, d.spo2))

\* the draw of the reading 72, 120/80, 98
NormalDraw == Draw(286, 335, 335, 800)

Normal == NewVitals(NormalDraw)

\* the draws of a normal reading, of one on every threshold (50, 180/120, 90:
\* not critical), of one critical by heart rate (131) and of one critical by
\* SpO2 only (89)
ReadingDraws ==
    { NormalDraw, Draw(57, 900, 862, 190), Draw(900, 335, 335, 800),
      Draw(286, 335, 335, 100) }

Readings == { NewVitals(d) : d \in ReadingDraws }

\* the draws of the simulator's specification: the ones above and every
\* combination of the least and the greatest value of Math.random()
SimDraws ==
    ReadingDraws \cup
    { Draw(a, b, c, e) : a, b, c, e \in {0, RandomResolution - 1} }

\* new Date().toLocaleTimeString([], {minute, second}): the seconds within the
\* hour at the n-th interval period of 2000 ms
Timestamp(n) == (2 * n) % 3600

isCritical_le(v) ==
    IF v.hr = 0 /\ v.spo2 = 0
    THEN FALSE
    ELSE v.hr <= 50 \/ v.hr > 130 \/ v.systolic > 180 \/ v.diastolic > 120 \/ v.spo2 < 90

isCritical(v) ==
    IF v.hr = 0 /\ v.spo2 = 0
    THEN FALSE
    ELSE v.hr < 50 \/ v.hr > 130 \/ v.systolic > 180 \/ v.diastolic > 120 \/ v.spo2 < 90

(***************************************************************************)
(* The component's state as a record, and its commit.                      *)
(***************************************************************************)
Cur ==
    [connectionStatus |-> connectionStatus, vitals |-> vitals,
     vitalsHistory |-> vitalsHistory, isSendingAlert |-> isSendingAlert,
     alertMessage |-> alertMessage, autoAlertSentRef |-> autoAlertSentRef,
     monitorIntervalRef |-> monitorIntervalRef, connectTimeouts |-> connectTimeouts,
     pendingCalls |-> pendingCalls, clock |-> clock, connects |-> connects,
     starts |-> starts, autoStartsInSession |-> autoStartsInSession,
     autoFailedInSession |-> autoFailedInSession,
     autoStartedAfterFailure |-> autoStartedAfterFailure,
     criticalSeen |-> criticalSeen, alertsInEpisode |-> alertsInEpisode,
     autoAlertsInSession |-> autoAlertsInSession, notifications |-> notifications,
     zoomDomain |-> zoomDomain, refAreaLeft |-> refAreaLeft,
     refAreaRight |-> refAreaRight]

CommitMonitor(st) ==
    /\ st.starts <= MaxStarts
    /\ connectionStatus' = st.connectionStatus
    /\ vitals' = st.vitals
    /\ vitalsHistory' = st.vitalsHistory
    /\ isSendingAlert' = st.isSendingAlert
    /\ alertMessage' = st.alertMessage
    /\ autoAlertSentRef' = st.autoAlertSentRef
    /\ monitorIntervalRef' = st.monitorIntervalRef
    /\ connectTimeouts' = st.connectTimeouts
    /\ pendingCalls' = st.pendingCalls
    /\ clock' = st.clock
    /\ connects' = st.connects
    /\ starts' = st.starts
    /\ autoStartsInSession' = st.autoStartsInSession
    /\ autoFailedInSession' = st.autoFailedInSession
    /\ autoStartedAfterFailure' = st.autoStartedAfterFailure
    /\ criticalSeen' = st.criticalSeen
    /\ alertsInEpisode' = st.alertsInEpisode
    /\ autoAlertsInSession' = st.autoAlertsInSession
    /\ notifications' = st.notifications
    /\ zoomDomain' = st.zoomDomain
    /\ refAreaLeft' = st.refAreaLeft
    /\ refAreaRight' = st.refAreaRight

Commit(st) ==
    /\ CommitMonitor(st)
    /\ UNCHANGED <<envVars, probeVars, medsVars, pageVars>>

(***************************************************************************)
(* The notification block of generateAndSendAlert: the body by priority,   *)
(* and the request to show it where the browser supports and allows it.    *)
(***************************************************************************)
notificationBody_bpBeforeSpo2(v) ==
    IF v.hr < 50 \/ v.hr > 130
    THEN [text |-> "Critical Heart Rate", values |-> <<v.hr>>]
    ELSE IF v.systolic > 180 \/ v.diastolic > 120
    THEN [text |-> "High Blood Pressure", values |-> <<v.systolic, v.diastolic>>]
    ELSE IF v.spo2 < 90
    THEN [text |-> "Low Oxygen Saturation", values |-> <<v.spo2>>]
    ELSE [text |-> "One or more vitals are critical", values |-> <<>>]

notificationBody(v) ==
    IF v.hr < 50 \/ v.hr > 130
    THEN [text |-> "Critical Heart Rate", values |-> <<v.hr>>]
    ELSE IF v.spo2 < 90
    THEN [text |-> "Low Oxygen Saturation", values |-> <<v.spo2>>]
    ELSE IF v.systolic > 180 \/ v.diastolic > 120
    THEN [text |-> "High Blood Pressure", values |-> <<v.systolic, v.diastolic>>]
    ELSE [text |-> "One or more vitals are critical", values |-> <<>>]

\* the notifications requested by one start: none or one
notificationBlock(currentVitals) ==
    IF serviceWorkerSupported /\ notificationApi /\ browserPermission = "granted"
    THEN <<notificationBody(currentVitals)>>
    ELSE <<>>

(***************************************************************************)
(* generateAndSendAlert up to its await: the in-flight guard, the flag,    *)
(* the reset of the message on a manual trigger and the external call.     *)
(***************************************************************************)
generateAndSendAlert_alwaysClears(st, currentVitals, isManual) ==
    IF st.isSendingAlert
    THEN st
    ELSE [st EXCEPT
            !.isSendingAlert = TRUE,
            !.alertMessage = NullMsg,
            !.pendingCalls = @ \cup {[id |-> st.starts + 1, isManual |-> isManual,
                                      v |-> currentVitals, session |-> st.connects]},
            !.starts = @ + 1,
            !.autoStartsInSession = IF isManual THEN @ ELSE @ + 1,
            !.autoStartedAfterFailure =
                @ \/ (~isManual /\ st.autoFailedInSession),
            !.notifications = @ + Len(notificationBlock(currentVitals))]

generateAndSendAlert_noGuard(st, currentVitals, isManual) ==
    [st EXCEPT
        !.isSendingAlert = TRUE,
        !.alertMessage = IF isManual THEN NullMsg ELSE @,
        !.pendingCalls = @ \cup {[id |-> st.starts + 1, isManual |-> isManual,
                                  v |-> currentVitals, session |-> st.connects]},
        !.starts = @ + 1,
        !.autoStartsInSession = IF isManual THEN @ ELSE @ + 1,
        !.autoStartedAfterFailure =
            @ \/ (~isManual /\ st.autoFailedInSession),
        !.notifications = @ + Len(notificationBlock(currentVitals))]

generateAndSendAlert(st, currentVitals, isManual) ==
    IF st.isSendingAlert
    THEN st
    ELSE [st EXCEPT
            !.isSendingAlert = TRUE,
            !.alertMessage = IF isManual THEN NullMsg ELSE @,
            !.pendingCalls = @ \cup {[id |-> st.starts + 1, isManual |-> isManual,
                                      v |-> currentVitals, session |-> st.connects]},
            !.starts = @ + 1,
            !.autoStartsInSession = IF isManual THEN @ ELSE @ + 1,
            !.autoStartedAfterFailure =
                @ \/ (~isManual /\ st.autoFailedInSession),
            !.notifications = @ + Len(notificationBlock(currentVitals))]

generationResolved_noFlag(st, c) ==
    [st EXCEPT
        !.alertMessage = ResponseText,
        !.isSendingAlert = FALSE,
        !.pendingCalls = @ \ {c},
        !.alertsInEpisode =
            IF st.connectionStatus = "connected" /\ isCritical(st.vitals)
            THEN @ + 1 ELSE @,
        !.autoAlertsInSession = IF ~c.isManual THEN @ + 1 ELSE @]

\* the continuation after the await when the call resolved
generationResolved(st, c) ==
    [st EXCEPT
        !.alertMessage = ResponseText,
        !.autoAlertSentRef = IF ~c.isManual THEN TRUE ELSE @,
        !.isSendingAlert = FALSE,
        !.pendingCalls = @ \ {c},
        !.alertsInEpisode =
            IF st.connectionStatus = "connected" /\ isCritical(st.vitals)
            THEN @ + 1 ELSE @,
        !.autoAlertsInSession = IF ~c.isManual THEN @ + 1 ELSE @]

generationRejected_noFinally(st, c) ==
    [st EXCEPT
        !.alertMessage = AlertGenerationError,
        !.pendingCalls = @ \ {c},
        !.autoFailedInSession = @ \/ (~c.isManual /\ c.session = st.connects)]

generationRejected_setsFlag(st, c) ==
    [st EXCEPT
        !.alertMessage = AlertGenerationError,
        !.autoAlertSentRef = IF ~c.isManual THEN TRUE ELSE @,
        !.isSendingAlert = FALSE,
        !.pendingCalls = @ \ {c},
        !.autoFailedInSession = @ \/ (~c.isManual /\ c.session = st.connects)]

generationRejected_noMessage(st, c) ==
    [st EXCEPT
        !.isSendingAlert = FALSE,
        !.pendingCalls = @ \ {c},
        !.autoFailedInSession = @ \/ (~c.isManual /\ c.session = st.connects)]

\* the catch and finally blocks when the call rejected
generationRejected(st, c) ==
    [st EXCEPT
        !.alertMessage = AlertGenerationError,
        !.isSendingAlert = FALSE,
        !.pendingCalls = @ \ {c},
        !.autoFailedInSession = @ \/ (~c.isManual /\ c.session = st.connects)]

(***************************************************************************)
(* The two effects, run after a render whose dependencies changed.         *)
(***************************************************************************)
telemetryEffect_noClear(prev, st) ==
    IF st.connectionStatus # prev.connectionStatus /\ st.connectionStatus = "connected"
    THEN [st EXCEPT !.monitorIntervalRef = TRUE]
    ELSE st

telemetryEffect(prev, st) ==
    IF st.connectionStatus # prev.connectionStatus
    THEN [st EXCEPT !.monitorIntervalRef = (st.connectionStatus = "connected")]
    ELSE st

autoAlertEffect_anyStatus(prev, st, newVitals) ==
    IF /\ \/ newVitals
          \/ st.connectionStatus # prev.connectionStatus
          \/ st.isSendingAlert # prev.isSendingAlert
       /\ isCritical(st.vitals)
       /\ ~st.autoAlertSentRef
       /\ ~st.isSendingAlert
    THEN generateAndSendAlert(st, st.vitals, FALSE)
    ELSE st

autoAlertEffect_noVitalsDep(prev, st, newVitals) ==
    IF /\ \/ st.connectionStatus # prev.connectionStatus
          \/ st.isSendingAlert # prev.isSendingAlert
       /\ st.connectionStatus = "connected"
       /\ isCritical(st.vitals)
       /\ ~st.autoAlertSentRef
       /\ ~st.isSendingAlert
    THEN generateAndSendAlert(st, st.vitals, FALSE)
    ELSE st

\* newVitals: the render got a new vitals object (setVitals was called)
autoAlertEffect(prev, st, newVitals) ==
    IF /\ \/ newVitals
          \/ st.connectionStatus # prev.connectionStatus
          \/ st.isSendingAlert # prev.isSendingAlert
       /\ st.connectionStatus = "connected"
       /\ isCritical(st.vitals)
       /\ ~st.autoAlertSentRef
       /\ ~st.isSendingAlert
    THEN generateAndSendAlert(st, st.vitals, FALSE)
    ELSE st

Render(prev, st, newVitals) ==
    autoAlertEffect(prev, telemetryEffect(prev, st), newVitals)

(***************************************************************************)
(* The handlers.                                                           *)
(***************************************************************************)
handleConnect_keepsHistory(st) ==
    [st EXCEPT
        !.connectionStatus = "connecting",
        !.alertMessage = NullMsg,
        !.autoAlertSentRef = FALSE,
        !.vitals = Placeholder,
        !.connectTimeouts = @ + 1,
        !.connects = @ + 1,
        !.autoStartsInSession = 0,
        !.autoFailedInSession = FALSE,
        !.criticalSeen = FALSE,
        !.alertsInEpisode = 0,
        !.autoAlertsInSession = 0,
        !.zoomDomain = DataDomain]

handleConnect_keepsVitals(st) ==
    [st EXCEPT
        !.connectionStatus = "connecting",
        !.alertMessage = NullMsg,
        !.autoAlertSentRef = FALSE,
        !.vitalsHistory = <<>>,
        !.connectTimeouts = @ + 1,
        !.connects = @ + 1,
        !.autoStartsInSession = 0,
        !.autoFailedInSession = FALSE,
        !.criticalSeen = FALSE,
        !.alertsInEpisode = 0,
        !.autoAlertsInSession = 0,
        !.zoomDomain = DataDomain]

handleConnect(st) ==
    [st EXCEPT
        !.connectionStatus = "connecting",
        !.alertMessage = NullMsg,
        !.autoAlertSentRef = FALSE,
        !.vitals = Placeholder,
        !.vitalsHistory = <<>>,
        !.connectTimeouts = @ + 1,
        !.connects = @ + 1,
        !.autoStartsInSession = 0,
        !.autoFailedInSession = FALSE,
        !.criticalSeen = FALSE,
        !.alertsInEpisode = 0,
        !.autoAlertsInSession = 0,
        !.zoomDomain = DataDomain]

handleDisconnect(st) ==
    [st EXCEPT !.connectionStatus = "disconnected"]

\* the callback of the setTimeout of handleConnect
connectTimeout(st) ==
    [st EXCEPT !.connectionStatus = "connected", !.connectTimeouts = @ - 1]

updateHistory_noCap(prevHistory, newHistoryEntry) ==
    Append(prevHistory, newHistoryEntry)

updateHistory_keepsOldest(prevHistory, newHistoryEntry) ==
    LET updatedHistory == Append(prevHistory, newHistoryEntry)
    IN  IF Len(updatedHistory) > MAX_HISTORY_LENGTH
        THEN SubSeq(updatedHistory, 1, MAX_HISTORY_LENGTH)
        ELSE updatedHistory

\* the updater passed to setVitalsHistory; slice(n) keeps the elements from index n
updateHistory(prevHistory, newHistoryEntry) ==
    LET updatedHistory == Append(prevHistory, newHistoryEntry)
    IN  IF Len(updatedHistory) > MAX_HISTORY_LENGTH
        THEN SubSeq(updatedHistory,
                    Len(updatedHistory) - MAX_HISTORY_LENGTH + 1,
                    Len(updatedHistory))
        ELSE updatedHistory

HistoryEntry(newVitals, n) ==
    [hr |-> newVitals.hr, systolic |-> newVitals.systolic,
     diastolic |-> newVitals.diastolic, spo2 |-> newVitals.spo2,
     timestamp |-> Timestamp(n)]

\* the setInterval callback
tick(st, newVitals) ==
    [st EXCEPT
        !.clock = @ + 1,
        !.vitals = newVitals,
        !.vitalsHistory = updateHistory(@, HistoryEntry(newVitals, st.clock + 1)),
        !.criticalSeen = @ \/ isCritical(newVitals),
        !.alertsInEpisode = IF isCritical(newVitals) THEN @ ELSE 0]

(***************************************************************************)
(* The actions.                                                            *)
(***************************************************************************)
\* the connect button is rendered only while disconnected
HandleConnect ==
    /\ connectionStatus = "disconnected"
    /\ connects < MaxConnects
    /\ Commit(Render(Cur, handleConnect(Cur), TRUE))

\* the disconnect button is rendered while connecting or connected
HandleDisconnect ==
    /\ connectionStatus # "disconnected"
    /\ Commit(Render(Cur, handleDisconnect(Cur), FALSE))

ConnectTimeout ==
    /\ connectTimeouts > 0
    /\ Commit(Render(Cur, connectTimeout(Cur), FALSE))

Tick ==
    /\ monitorIntervalRef
    /\ clock < MaxTicks
    /\ \E r \in (IF clock < MaxVaried THEN Readings ELSE {Normal}) :
          Commit(Render(Cur, tick(Cur, r), TRUE))

\* the alert button is rendered while connected with no message shown and is
\* disabled while isSendingAlert
ManualAlert ==
    /\ connectionStatus = "connected"
    /\ alertMessage = NullMsg
    /\ ~isSendingAlert
    /\ Commit(Render(Cur, generateAndSendAlert(Cur, vitals, TRUE), FALSE))

\* a click that reaches the handler while a generation is loading
ManualAlertWhileSending ==
    /\ connectionStatus = "connected"
    /\ alertMessage = NullMsg
    /\ isSendingAlert
    /\ Commit(Render(Cur, generateAndSendAlert(Cur, vitals, TRUE), FALSE))

GenerationResolves ==
    \E c \in pendingCalls : Commit(Render(Cur, generationResolved(Cur, c), FALSE))

GenerationRejects ==
    \E c \in pendingCalls : Commit(Render(Cur, generationRejected(Cur, c), FALSE))

\* the state of the component after its first render
InitMonitor ==
    /\ connectionStatus = "disconnected"
    /\ vitals = Placeholder
    /\ vitalsHistory = <<>>
    /\ isSendingAlert = FALSE
    /\ alertMessage = NullMsg
    /\ autoAlertSentRef = FALSE
    /\ monitorIntervalRef = FALSE
    /\ connectTimeouts = 0
    /\ pendingCalls = {}
    /\ clock = 0
    /\ connects = 0
    /\ starts = 0
    /\ autoStartsInSession = 0
    /\ autoFailedInSession = FALSE
    /\ autoStartedAfterFailure = FALSE
    /\ criticalSeen = FALSE
    /\ alertsInEpisode = 0
    /\ autoAlertsInSession = 0
    /\ notifications = 0
    /\ zoomDomain = DataDomain
    /\ refAreaLeft = NoLabel
    /\ refAreaRight = NoLabel

\* the monitor is run in a browser that supports and has granted notifications
InitEnvGranted ==
    /\ browserPermission = "granted"
    /\ serviceWorkerSupported = TRUE
    /\ notificationApi = TRUE

InitProbeIdle ==
    /\ probe = Placeholder
    /\ verdict = "unset"
    /\ shown = <<>>

\* the run starts on a Sunday at 23:59:00 local time, in ms since the local
\* midnight that began a Sunday
StartOfRun == ((23 * 60) + 59) * 60000

\* the Medications page after its first render with nothing in localStorage
InitMedications ==
    /\ meds = <<>>
    /\ notificationPermission = browserPermission
    /\ now = StartOfRun
    /\ reminderInterval = <<>>
    /\ notified = {}
    /\ pendingShows = {}
    /\ swReady = TRUE
    /\ shownNow = {}

\* GlobalSearch after its first render
InitSearch ==
    /\ query = <<>>
    /\ results = <<>>
    /\ isActive = FALSE
    /\ searchTimers = {}
    /\ superseded = FALSE

\* src/service-worker.js l.3
CACHE_NAME == "health-companion-cache-v1"

\* a cache left in the CacheStorage by an earlier version of the worker
PreviousCache == "health-companion-cache-v0"

CacheNames == {CACHE_NAME, PreviousCache}

\* the service worker after its script has run, before the install event
InitWorker ==
    /\ swState = "parsed"
    /\ cacheStorage = [n \in CacheNames |-> IF n = PreviousCache THEN {"/"} ELSE {}]
    /\ fetchEvents = <<>>

\* MentalHealth after its first render and mount effect, nothing stored
InitMood ==
    /\ moodHistory = <<>>
    /\ storedMoods = <<>>
    /\ today = 1
    /\ lastSelected = <<>>

InitPages == InitSearch /\ InitWorker /\ InitMood

Init ==
    /\ InitMonitor
    /\ InitEnvGranted
    /\ InitProbeIdle
    /\ InitMedications
    /\ InitPages

Next ==
    \/ HandleConnect
    \/ HandleDisconnect
    \/ ConnectTimeout
    \/ Tick
    \/ ManualAlert
    \/ ManualAlertWhileSending
    \/ GenerationResolves
    \/ GenerationRejects

Spec == Init /\ [][Next]_vars

(***************************************************************************)
(* Termination of a generation is checked under fairness of the external   *)
(* call's completion, over runs of at most MaxLiveTicks readings.          *)
(***************************************************************************)
MaxLiveTicks == 2

\* a normal reading and a critical one
LiveReadings == { Normal, NewVitals(Draw(900, 335, 335, 800)) }

TickLive ==
    /\ monitorIntervalRef
    /\ clock < MaxLiveTicks
    /\ \E r \in LiveReadings : Commit(Render(Cur, tick(Cur, r), TRUE))

NextLive ==
    \/ HandleConnect
    \/ HandleDisconnect
    \/ ConnectTimeout
    \/ TickLive
    \/ ManualAlert
    \/ ManualAlertWhileSending
    \/ GenerationResolves
    \/ GenerationRejects

\* the external call eventually resolves or rejects
Fairness == WF_vars(GenerationResolves \/ GenerationRejects)

SpecLive == Init /\ [][NextLive]_vars /\ Fairness

(***************************************************************************)
(* The notification block in every browser: the permission and the support *)
(* are drawn at the start, the readings lie on both sides of every         *)
(* threshold, and shown records the notification of the latest start.      *)
(***************************************************************************)
MaxNotificationTicks == 1

NotificationReadings ==
    { Reading(hr, systolic, diastolic, spo2) :
        hr \in {49, 50, 130, 131}, systolic \in {180, 181},
        diastolic \in {120, 121}, spo2 \in {89, 90} }

CommitShown(st) ==
    LET started == st.pendingCalls \ pendingCalls
    IN  /\ CommitMonitor(st)
        /\ shown' = IF started = {}
                    THEN shown
                    ELSE notificationBlock((CHOOSE c \in started : TRUE).v)
        /\ UNCHANGED <<envVars, probe, verdict, medsVars, pageVars>>

TickShown ==
    /\ monitorIntervalRef
    /\ clock < MaxNotificationTicks
    /\ \E r \in NotificationReadings : CommitShown(Render(Cur, tick(Cur, r), TRUE))

ManualAlertShown ==
    /\ connectionStatus = "connected"
    /\ alertMessage = NullMsg
    /\ ~isSendingAlert
    /\ CommitShown(Render(Cur, generateAndSendAlert(Cur, vitals, TRUE), FALSE))

InitNotification ==
    /\ InitMonitor
    /\ browserPermission \in {"default", "granted", "denied"}
    /\ serviceWorkerSupported \in BOOLEAN
    /\ notificationApi \in BOOLEAN
    /\ InitProbeIdle
    /\ InitMedications
    /\ InitPages

NextNotification ==
    \/ HandleConnect
    \/ ConnectTimeout
    \/ TickShown
    \/ ManualAlertShown

SpecNotification == InitNotification /\ [][NextNotification]_vars

(***************************************************************************)
(* The zoom of the charts. An event of a chart is <<>> (null) or           *)
(* <<activeLabel>>; the charts are rendered while connected with more than *)
(* one history entry. Runs have at most MaxZoomTicks normal readings.      *)
(***************************************************************************)
MaxZoomTicks == 4

NullEvent == <<>>

Min(a, b) == IF a <= b THEN a ELSE b

Max(a, b) == IF a >= b THEN a ELSE b

\* Array.prototype.findIndex on the timestamps: the first index (from 1), or -1
findIndex(history, label) ==
    LET found == { i \in 1..Len(history) : <<history[i].timestamp>> = label }
    IN  IF found = {} THEN -1 ELSE CHOOSE i \in found : \A j \in found : i <= j

handleZoom_unordered(st) ==
    LET leftIndex == findIndex(st.vitalsHistory, st.refAreaLeft)
        rightIndex == findIndex(st.vitalsHistory, st.refAreaRight)
        newDomain == [from |-> <<st.vitalsHistory[leftIndex].timestamp>>,
                      to |-> <<st.vitalsHistory[rightIndex].timestamp>>]
    IN  [st EXCEPT
            !.zoomDomain =
                IF /\ st.refAreaLeft # NoLabel /\ st.refAreaRight # NoLabel
                   /\ leftIndex # -1 /\ rightIndex # -1
                   /\ leftIndex # rightIndex
                THEN newDomain
                ELSE @,
            !.refAreaLeft = NoLabel,
            !.refAreaRight = NoLabel]

handleZoom(st) ==
    LET leftIndex == findIndex(st.vitalsHistory, st.refAreaLeft)
        rightIndex == findIndex(st.vitalsHistory, st.refAreaRight)
        from == Min(leftIndex, rightIndex)
        to == Max(leftIndex, rightIndex)
        newDomain == [from |-> <<st.vitalsHistory[from].timestamp>>,
                      to |-> <<st.vitalsHistory[to].timestamp>>]
    IN  [st EXCEPT
            !.zoomDomain =
                IF /\ st.refAreaLeft # NoLabel /\ st.refAreaRight # NoLabel
                   /\ leftIndex # -1 /\ rightIndex # -1
                   /\ from # to
                THEN newDomain
                ELSE @,
            !.refAreaLeft = NoLabel,
            !.refAreaRight = NoLabel]

resetZoom(st) == [st EXCEPT !.zoomDomain = DataDomain]

\* onMouseDown: e && setRefAreaLeft(e.activeLabel)
onMouseDown(st, e) ==
    IF e = NullEvent THEN st ELSE [st EXCEPT !.refAreaLeft = e[1]]

\* onMouseMove: e && refAreaLeft && setRefAreaRight(e.activeLabel)
onMouseMove(st, e) ==
    IF e = NullEvent \/ st.refAreaLeft = NoLabel
    THEN st
    ELSE [st EXCEPT !.refAreaRight = e[1]]

ChartRendered == connectionStatus = "connected" /\ Len(vitalsHistory) > 1

\* the events a chart can emit: none, or one whose activeLabel is the
\* timestamp of a point of the data or undefined
ChartEvents ==
    {NullEvent, <<NoLabel>>}
        \cup { << <<vitalsHistory[i].timestamp>> >> : i \in 1..Len(vitalsHistory) }

ChartMouseDown ==
    /\ ChartRendered
    /\ \E e \in ChartEvents : Commit(Render(Cur, onMouseDown(Cur, e), FALSE))

ChartMouseMove ==
    /\ ChartRendered
    /\ \E e \in ChartEvents : Commit(Render(Cur, onMouseMove(Cur, e), FALSE))

ChartMouseUp ==
    /\ ChartRendered
    /\ Commit(Render(Cur, handleZoom(Cur), FALSE))

ResetZoom ==
    /\ ChartRendered
    /\ zoomDomain.from # DataBound
    /\ Commit(Render(Cur, resetZoom(Cur), FALSE))

TickZoom ==
    /\ monitorIntervalRef
    /\ clock < MaxZoomTicks
    /\ Commit(Render(Cur, tick(Cur, Normal), TRUE))

NextZoom ==
    \/ HandleConnect
    \/ HandleDisconnect
    \/ ConnectTimeout
    \/ TickZoom
    \/ ChartMouseDown
    \/ ChartMouseMove
    \/ ChartMouseUp
    \/ ResetZoom

SpecZoom == Init /\ [][NextZoom]_vars

(***************************************************************************)
(* The simulator over the extreme values of Math.random(), for runs of at  *)
(* most MaxSimTicks readings.                                              *)
(***************************************************************************)
TickSim ==
    /\ monitorIntervalRef
    /\ clock < MaxSimTicks
    /\ \E d \in SimDraws : Commit(Render(Cur, tick(Cur, NewVitals(d)), TRUE))

NextSim ==
    \/ HandleConnect
    \/ HandleDisconnect
    \/ ConnectTimeout
    \/ TickSim
    \/ GenerationResolves
    \/ GenerationRejects

SpecSimulator == Init /\ [][NextSim]_vars

(***************************************************************************)
(* isCritical as a pure function: a specification that draws a reading     *)
(* from a grid around the thresholds and classifies it.                    *)
(***************************************************************************)
ProbeReadings ==
    [hr : {0, 49, 50, 51, 130, 131}, systolic : {0, 180, 181},
     diastolic : {0, 120, 121}, spo2 : {0, 89, 90}]

Classify ==
    /\ verdict = "unset"
    /\ verdict' = IF isCritical(probe) THEN "critical" ELSE "normal"
    /\ UNCHANGED <<probe, shown>>
    /\ UNCHANGED <<monitorVars, envVars, medsVars, pageVars>>

InitCritical ==
    /\ InitMonitor
    /\ InitEnvGranted
    /\ InitMedications
    /\ InitPages
    /\ probe \in ProbeReadings
    /\ verdict = "unset"
    /\ shown = <<>>

NextCritical == Classify

SpecCritical == InitCritical /\ [][NextCritical]_vars

(***************************************************************************)
(* The medication reminders of src/pages/Medications.tsx. Time is sampled  *)
(* every SamplePeriod ms from StartOfRun, so that a run crosses a minute   *)
(* and a midnight. 'HH:MM' is <<hour, minute>>. A step is one task: a      *)
(* handler or timer callback with the render and the reminder effect that  *)
(* follow, and, when navigator.serviceWorker.ready has resolved, the       *)
(* then-callbacks it queued.                                               *)
(***************************************************************************)
SamplePeriod == 30000
\* samples after StartOfRun
MaxInstants == 4
\* medications in the list
MaxMeds == 1
\* then-callbacks waiting for navigator.serviceWorker.ready
MaxPending == 2

WEEK_DAYS ==
    <<"Sunday", "Monday", "Tuesday", "Wednesday", "Thursday", "Friday", "Saturday">>

\* now.toLocaleString('en-US', { weekday: 'long' })
currentDay(t) == WEEK_DAYS[((t \div 86400000) % 7) + 1]

\* now.toLocaleTimeString([], { hour: '2-digit', minute: '2-digit', hour12: false })
currentTime(t) == <<(t \div 3600000) % 24, (t \div 60000) % 60>>

Medication(id, status, reminderTimes, days) ==
    [id |-> id, status |-> status, reminderTimes |-> reminderTimes, days |-> days]

\* what the form can submit: both statuses, a reminder in the minute before
\* or after midnight, every day or Sundays only
MedForms ==
    { Medication(<<>>, status, reminderTimes, days) :
        status \in {"Active", "Inactive"},
        reminderTimes \in {{<<23, 59>>}, {<<0, 0>>}},
        days \in {{WEEK_DAYS[i] : i \in 1..7}, {"Sunday"}} }

\* the condition of checkReminders
due(med, t) ==
    /\ med.status = "Active"
    /\ currentDay(t) \in med.days
    /\ currentTime(t) \in med.reminderTimes

\* !lastNotified || now.getTime() - parseInt(lastNotified, 10) > 60000
notDeduped(med, t) ==
    \A n \in notified :
        (n.id = med.id /\ n.time = currentTime(t)) => t - n.at > 60000

\* the then-callbacks one run of checkReminders registers
checkReminders(ms) ==
    IF serviceWorkerSupported
    THEN { [med |-> ms[i], at |-> now] :
             i \in { j \in 1..Len(ms) : due(ms[j], now) /\ notDeduped(ms[j], now) } }
    ELSE {}

\* registration.showNotification: shown if the permission is granted
showNotification(reqs) ==
    IF browserPermission = "granted" THEN { r.med : r \in reqs } ELSE {}

\* localStorage.setItem of the callbacks, the latest check of a key last
setItem(items, reqs) ==
    LET sameKey(r, n) == n.id = r.med.id /\ n.time = currentTime(r.at)
        last == { r \in reqs :
                    \A q \in reqs :
                        (q.med.id = r.med.id /\ currentTime(q.at) = currentTime(r.at))
                            => q.at <= r.at }
    IN  { n \in items : \A r \in reqs : ~sameKey(r, n) }
            \cup { [id |-> r.med.id, time |-> currentTime(r.at), at |-> r.at] :
                     r \in last }

\* navigator.serviceWorker.ready.then(...): run at once if ready, else queued
thenCallbacks(reqs) ==
    IF swReady
    THEN /\ shownNow' = showNotification(reqs)
         /\ notified' = setItem(notified, reqs)
         /\ pendingShows' = pendingShows
    ELSE /\ Cardinality(pendingShows \cup reqs) <= MaxPending
         /\ shownNow' = {}
         /\ notified' = notified
         /\ pendingShows' = pendingShows \cup reqs

\* the reminder effect after a render with a new meds array or permission
reminderEffect(ms, permission) ==
    IF permission # "granted" \/ ms = <<>>
    THEN /\ reminderInterval' = <<>>
         /\ thenCallbacks({})
    ELSE /\ reminderInterval' = <<now + 60000>>
         /\ thenCallbacks(checkReminders(ms))

\* handleSave: a new medication gets new Date().toISOString() as its id
handleSave(ms, i, form) ==
    IF i = 0
    THEN Append(ms, [form EXCEPT !.id = <<now>>])
    ELSE [ms EXCEPT ![i] = [form EXCEPT !.id = ms[i].id]]

handleDelete(ms, i) ==
    SubSeq(ms, 1, i - 1) \o SubSeq(ms, i + 1, Len(ms))

HandleSave ==
    /\ \E i \in 0..Len(meds), form \in MedForms :
          /\ i = 0 => Len(meds) < MaxMeds /\ \A j \in 1..Len(meds) : meds[j].id # <<now>>
          /\ meds' = handleSave(meds, i, form)
          /\ reminderEffect(handleSave(meds, i, form), notificationPermission)
    /\ UNCHANGED <<notificationPermission, now, swReady>>
    /\ UNCHANGED <<monitorVars, envVars, probeVars, pageVars>>

HandleDelete ==
    /\ \E i \in 1..Len(meds) :
          /\ meds' = handleDelete(meds, i)
          /\ reminderEffect(handleDelete(meds, i), notificationPermission)
    /\ UNCHANGED <<notificationPermission, now, swReady>>
    /\ UNCHANGED <<monitorVars, envVars, probeVars, pageVars>>

\* the 1000 ms interval that copies Notification.permission into the state
PermissionSync ==
    /\ browserPermission # notificationPermission
    /\ notificationPermission' = browserPermission
    /\ reminderEffect(meds, browserPermission)
    /\ UNCHANGED <<meds, now, swReady>>
    /\ UNCHANGED <<monitorVars, envVars, probeVars, pageVars>>

\* the user answers the prompt or changes the site's setting
BrowserPermissionChanges ==
    /\ browserPermission' \in {"default", "granted", "denied"} \ {browserPermission}
    /\ shownNow' = {}
    /\ UNCHANGED <<meds, notificationPermission, now, reminderInterval, notified,
                   pendingShows, swReady>>
    /\ UNCHANGED <<monitorVars, serviceWorkerSupported, notificationApi, probeVars,
                   pageVars>>

\* setInterval(checkReminders, 60000)
IntervalCheck ==
    /\ reminderInterval # <<>>
    /\ reminderInterval[1] <= now
    /\ reminderInterval' = <<reminderInterval[1] + 60000>>
    /\ thenCallbacks(checkReminders(meds))
    /\ UNCHANGED <<meds, notificationPermission, now, swReady>>
    /\ UNCHANGED <<monitorVars, envVars, probeVars, pageVars>>

\* time passes when no callback of the interval is due
TimePasses ==
    /\ now < StartOfRun + MaxInstants * SamplePeriod
    /\ IF reminderInterval = <<>> THEN TRUE ELSE reminderInterval[1] > now
    /\ now' = now + SamplePeriod
    /\ shownNow' = {}
    /\ UNCHANGED <<meds, notificationPermission, reminderInterval, notified,
                   pendingShows, swReady>>
    /\ UNCHANGED <<monitorVars, envVars, probeVars, pageVars>>

\* the service worker becomes active: ready resolves and the queued
\* then-callbacks run
ServiceWorkerActivates ==
    /\ serviceWorkerSupported
    /\ ~swReady
    /\ swReady' = TRUE
    /\ shownNow' = showNotification(pendingShows)
    /\ notified' = setItem(notified, pendingShows)
    /\ pendingShows' = {}
    /\ UNCHANGED <<meds, notificationPermission, now, reminderInterval>>
    /\ UNCHANGED <<monitorVars, envVars, probeVars, pageVars>>

\* the page is opened in any browser, before or after the service worker of
\* the application has become active
InitMeds ==
    /\ InitMonitor
    /\ InitProbeIdle
    /\ browserPermission \in {"default", "granted", "denied"}
    /\ serviceWorkerSupported \in BOOLEAN
    /\ notificationApi = TRUE
    /\ meds = <<>>
    /\ notificationPermission = browserPermission
    /\ now = StartOfRun
    /\ reminderInterval = <<>>
    /\ notified = {}
    /\ pendingShows = {}
    /\ swReady \in BOOLEAN
    /\ swReady => serviceWorkerSupported
    /\ shownNow = {}
    /\ InitPages

NextMeds ==
    \/ HandleSave
    \/ HandleDelete
    \/ PermissionSync
    \/ BrowserPermissionChanges
    \/ IntervalCheck
    \/ TimePasses
    \/ ServiceWorkerActivates

SpecMeds == InitMeds /\ [][NextMeds]_vars

(***************************************************************************)
(* The global search of src/components/GlobalSearch.tsx. A string is a     *)
(* sequence of characters; the texts searched are the first characters of  *)
(* fields of src/lib/data.ts. A step is a handler with the render and the  *)
(* debounce effect (its cleanup first) that follow, or the timer callback. *)
(***************************************************************************)
\* characters of a query in one run
MaxQueryLength == 3

\* the characters the user types
Keys == {"d", "D", "r", "a"}

Queries == UNION { [1..n -> Keys] : n \in 0..MaxQueryLength }

\* String.prototype.toLowerCase
toLowerCase(str) ==
    [i \in 1..Len(str) |->
        CASE str[i] = "D" -> "d"
          [] str[i] = "C" -> "c"
          [] str[i] = "L" -> "l"
          [] OTHER -> str[i]]

\* String.prototype.includes
includes(str, part) ==
    \E i \in 0..(Len(str) - Len(part)) : SubSeq(str, i + 1, i + Len(part)) = part

\* the start of doctor and specialty of the appointments of lib/data.ts
appointments ==
    << [doctor |-> <<"D", "r", ".">>, specialty |-> <<"C", "a", "r", "d">>],
       [doctor |-> <<"D", "r", ".">>, specialty |-> <<"D", "e", "r", "m">>] >>

\* the start of title, type and doctor of the records of lib/data.ts
records ==
    << [title |-> <<"C", "o", "m", "p">>, type |-> <<"L", "a", "b">>,
        doctor |-> <<"D", "r", ".">>] >>

\* localStorage 'medications': none stored
storedMeds == <<>>

\* the body of the setTimeout handler
search(q) ==
    LET lowerCaseQuery == toLowerCase(q)
        medTest(med) ==
            \/ includes(toLowerCase(med.name), lowerCaseQuery)
            \/ includes(toLowerCase(med.dosage), lowerCaseQuery)
        aptTest(apt) ==
            \/ includes(toLowerCase(apt.doctor), lowerCaseQuery)
            \/ includes(toLowerCase(apt.specialty), lowerCaseQuery)
        recTest(rec) ==
            \/ includes(toLowerCase(rec.title), lowerCaseQuery)
            \/ includes(toLowerCase(rec.type), lowerCaseQuery)
            \/ includes(toLowerCase(rec.doctor), lowerCaseQuery)
        medResults == SelectSeq(storedMeds, medTest)
        appointmentResults == SelectSeq(appointments, aptTest)
        recordResults == SelectSeq(records, recTest)
    IN  [i \in 1..Len(medResults) |->
            [type |-> "Medication", title |-> medResults[i].name]]
        \o [i \in 1..Len(appointmentResults) |->
            [type |-> "Appointment", title |-> appointmentResults[i].doctor]]
        \o [i \in 1..Len(recordResults) |->
            [type |-> "Record", title |-> recordResults[i].title]]

debounceEffect_noCleanup(q, res) ==
    /\ superseded' = (superseded \/ searchTimers # {})
    /\ IF Len(q) < 2
       THEN /\ results' = <<>>
            /\ searchTimers' = searchTimers
       ELSE /\ results' = res
            /\ searchTimers' = searchTimers \cup {q}

\* the debounce effect after a render with a new query: the cleanup of the
\* previous run clears its timer, then a query of 2 or more characters sets one
debounceEffect(q, res) ==
    /\ superseded' = (superseded \/ searchTimers # {})
    /\ IF Len(q) < 2
       THEN /\ results' = <<>>
            /\ searchTimers' = {}
       ELSE /\ results' = res
            /\ searchTimers' = {q}

\* onChange of the input
SetQuery ==
    /\ \E q \in Queries \ {query} :
          /\ query' = q
          /\ debounceEffect(q, results)
    /\ UNCHANGED isActive
    /\ UNCHANGED <<monitorVars, envVars, probeVars, medsVars, workerVars, moodVars>>

\* the setTimeout handler, 300 ms after the effect
SearchTimeout ==
    /\ \E q \in searchTimers :
          /\ results' = search(q)
          /\ searchTimers' = searchTimers \ {q}
    /\ UNCHANGED <<query, isActive, superseded>>
    /\ UNCHANGED <<monitorVars, envVars, probeVars, medsVars, workerVars, moodVars>>

\* a result is rendered while the box is active and the query has 2 characters
HandleResultClick ==
    /\ isActive
    /\ Len(query) >= 2
    /\ results # <<>>
    /\ query' = <<>>
    /\ isActive' = FALSE
    /\ debounceEffect(<<>>, <<>>)
    /\ UNCHANGED <<monitorVars, envVars, probeVars, medsVars, workerVars, moodVars>>

\* onFocus of the input
Focus ==
    /\ ~isActive
    /\ isActive' = TRUE
    /\ UNCHANGED <<query, results, searchTimers, superseded>>
    /\ UNCHANGED <<monitorVars, envVars, probeVars, medsVars, workerVars, moodVars>>

\* a mousedown outside the component
HandleClickOutside ==
    /\ isActive
    /\ isActive' = FALSE
    /\ UNCHANGED <<query, results, searchTimers, superseded>>
    /\ UNCHANGED <<monitorVars, envVars, probeVars, medsVars, workerVars, moodVars>>

NextSearch ==
    \/ SetQuery
    \/ SearchTimeout
    \/ HandleResultClick
    \/ Focus
    \/ HandleClickOutside

SpecSearch == Init /\ [][NextSearch]_vars

(***************************************************************************)
(* The service worker of src/service-worker.js. A cache is the set of the  *)
(* URLs it holds a response for; a deleted cache holds none.                *)
(***************************************************************************)
\* fetch events in one run
MaxFetchEvents == 2

URLS_TO_CACHE ==
    {"/", "/index.html", "/index.tsx",
     "https://unpkg.com/recharts/umd/Recharts.min.js",
     "/pills.png", "/heart-alert.png"}

\* the requests of the pages: two of the list, one outside it
Requests == {"/", "/pills.png", "/index.css"}

CachedResponse(url) == [from |-> "cache", url |-> url, ok |-> TRUE]

\* the outcome of fetch(event.request): a response, or a rejection when ok is FALSE
NetworkResponse(url, ok) == [from |-> "network", url |-> url, ok |-> ok]

\* caches.match(request): <<response>> of a cache that holds one, <<>> if none does
match(storage, request) ==
    IF \E n \in CacheNames : request \in storage[n]
    THEN <<CachedResponse(request)>>
    ELSE <<>>

thenCallback_alwaysFetches(e) ==
    [e EXCEPT !.stage = "fetching", !.networkRequests = @ + 1]

\* the then-callback of caches.match in the fetch listener
thenCallback(e) ==
    IF e.matched # <<>>
    THEN [e EXCEPT !.stage = "responded", !.response = e.matched]
    ELSE [e EXCEPT !.stage = "fetching", !.networkRequests = @ + 1]

\* the install listener: addAll stores every URL, or none when a download fails
Install ==
    /\ swState = "parsed"
    /\ swState' = "installed"
    /\ \E stored \in BOOLEAN :
          cacheStorage' = [cacheStorage EXCEPT
                              ![CACHE_NAME] = IF stored THEN @ \cup URLS_TO_CACHE ELSE @]
    /\ UNCHANGED fetchEvents
    /\ UNCHANGED <<monitorVars, envVars, probeVars, medsVars, searchVars, moodVars>>

\* the activate listener: every cache outside the whitelist is deleted
Activate ==
    /\ swState = "installed"
    /\ swState' = "activated"
    /\ LET cacheWhitelist == {CACHE_NAME}
       IN  cacheStorage' = [n \in CacheNames |->
                               IF n \in cacheWhitelist THEN cacheStorage[n] ELSE {}]
    /\ UNCHANGED fetchEvents
    /\ UNCHANGED <<monitorVars, envVars, probeVars, medsVars, searchVars, moodVars>>

\* the fetch listener up to caches.match; held records whether a cache holds a match
FetchEvent ==
    /\ swState = "activated"
    /\ Len(fetchEvents) < MaxFetchEvents
    /\ \E request \in Requests :
          fetchEvents' = Append(fetchEvents,
              [request |-> request,
               held |-> \E n \in CacheNames : request \in cacheStorage[n],
               matched |-> match(cacheStorage, request),
               stage |-> "matching",
               response |-> <<>>,
               networkRequests |-> 0])
    /\ UNCHANGED <<swState, cacheStorage>>
    /\ UNCHANGED <<monitorVars, envVars, probeVars, medsVars, searchVars, moodVars>>

\* the promise of caches.match resolves
MatchThen ==
    /\ \E i \in 1..Len(fetchEvents) :
          /\ fetchEvents[i].stage = "matching"
          /\ fetchEvents' = [fetchEvents EXCEPT ![i] = thenCallback(@)]
    /\ UNCHANGED <<swState, cacheStorage>>
    /\ UNCHANGED <<monitorVars, envVars, probeVars, medsVars, searchVars, moodVars>>

\* the promise of fetch(event.request) settles and respondWith passes it on
NetworkSettles ==
    /\ \E i \in 1..Len(fetchEvents), ok \in BOOLEAN :
          /\ fetchEvents[i].stage = "fetching"
          /\ fetchEvents' = [fetchEvents EXCEPT
                 ![i] = [fetchEvents[i] EXCEPT
                            !.stage = "responded",
                            !.response = <<NetworkResponse(fetchEvents[i].request, ok)>>]]
    /\ UNCHANGED <<swState, cacheStorage>>
    /\ UNCHANGED <<monitorVars, envVars, probeVars, medsVars, searchVars, moodVars>>

NextWorker ==
    \/ Install
    \/ Activate
    \/ FetchEvent
    \/ MatchThen
    \/ NetworkSettles

SpecWorker == Init /\ [][NextWorker]_vars

(***************************************************************************)
(* The mood log of MentalHealth (src/unnamed/part_003). A date is the      *)
(* number of its day; the JSON text of a history is the sequence of its    *)
(* members, two for each entry.                                            *)
(***************************************************************************)
\* days in one run
MaxDays == 3

\* the names of moods
MoodNames == {"Happy", "Good", "Neutral", "Worried", "Sad"}

\* JSON.stringify of a MoodEntry[]
stringify(history) ==
    [i \in 1..(2 * Len(history)) |->
        IF i % 2 = 1
        THEN <<"mood", history[(i + 1) \div 2].mood>>
        ELSE <<"date", history[i \div 2].date>>]

\* JSON.parse of such a text
parse(text) ==
    [i \in 1..(Len(text) \div 2) |->
        [mood |-> text[2 * i - 1][2], date |-> text[2 * i][2]]]

handleMoodSelect_noFilter(history, mood, day) ==
    LET newEntry == [mood |-> mood, date |-> day]
    IN  history \o <<newEntry>>

\* handleMoodSelect: the new history
handleMoodSelect(history, mood, day) ==
    LET newEntry == [mood |-> mood, date |-> day]
        notToday(h) == h.date # day
        updatedHistory == SelectSeq(history, notToday)
    IN  updatedHistory \o <<newEntry>>

\* a mood button is clicked
HandleMoodSelect ==
    /\ \E mood \in MoodNames :
          LET newHistory == handleMoodSelect(moodHistory, mood, today)
          IN  /\ moodHistory' = newHistory
              /\ storedMoods' = <<stringify(newHistory)>>
              /\ lastSelected' = <<[mood |-> mood, date |-> today]>>
    /\ UNCHANGED today
    /\ UNCHANGED <<monitorVars, envVars, probeVars, medsVars, searchVars, workerVars>>

\* the page is opened again: the state starts empty and the mount effect reads the item
MountMentalHealth ==
    /\ moodHistory' = IF storedMoods = <<>> THEN <<>> ELSE parse(storedMoods[1])
    /\ UNCHANGED <<storedMoods, today, lastSelected>>
    /\ UNCHANGED <<monitorVars, envVars, probeVars, medsVars, searchVars, workerVars>>

\* midnight (UTC) passes
DayPasses ==
    /\ today < MaxDays
    /\ today' = today + 1
    /\ UNCHANGED <<moodHistory, storedMoods, lastSelected>>
    /\ UNCHANGED <<monitorVars, envVars, probeVars, medsVars, searchVars, workerVars>>

NextMood ==
    \/ HandleMoodSelect
    \/ MountMentalHealth
    \/ DayPasses

SpecMood == Init /\ [][NextMood]_vars

(***************************************************************************)
(* Properties of the alert generator.                                      *)
(***************************************************************************)
\* the calls started by the step
NewCalls == pendingCalls' \ pendingCalls

\* the step is handleDisconnect: only it sets the status to 'disconnected'
DisconnectStep == connectionStatus # "disconnected" /\ connectionStatus' = "disconnected"

\* C1: between a handleConnect and the next one, generateAndSendAlert is
\* started with isManual = false at most once, whatever the outcomes.
C1_AutoAlertAtMostOncePerSession == autoStartsInSession <= 1

\* C2: once an automatic generation call of this session was rejected, no
\* automatic generation call is started in this session any more.
C2_NoAutomaticRetry == ~autoStartedAfterFailure

\* C3: at most one generation call is outstanding at any time, and
\* isSendingAlert is true exactly while a call is outstanding.
C3_OneCallOutstanding ==
    /\ Cardinality(pendingCalls) <= 1
    /\ isSendingAlert <=> (pendingCalls # {})

\* a critical reading arrived while a manual call was in flight, and no second
\* call was started
C3_Witness ==
    /\ connectionStatus = "connected"
    /\ isCritical(vitals)
    /\ ~autoAlertSentRef
    /\ \E c \in pendingCalls : c.isManual /\ c.v # vitals

\* C4: the vitals history never holds more than MAX_HISTORY_LENGTH readings.
C4_HistoryBounded == Len(vitalsHistory) <= MAX_HISTORY_LENGTH

\* the 31st reading of a session has arrived and the history is full
C4_Witness ==
    /\ Len(vitalsHistory) = MAX_HISTORY_LENGTH
    /\ clock = MAX_HISTORY_LENGTH + 1
    /\ vitalsHistory[1].timestamp = Timestamp(2)

\* C5: a tick leaves the previous history, minus its first entry if it held
\* MAX_HISTORY_LENGTH readings, followed by the new reading.
C5_TickAppendsAndEvictsOldest ==
    [][clock' # clock =>
         LET kept == IF Len(vitalsHistory) = MAX_HISTORY_LENGTH
                     THEN Tail(vitalsHistory)
                     ELSE vitalsHistory
         IN  vitalsHistory' = kept \o <<HistoryEntry(vitals', clock')>>]_vars

\* two readings have been evicted: the history holds the 3rd to the 32nd
C5_Witness ==
    /\ Len(vitalsHistory) = MAX_HISTORY_LENGTH
    /\ vitalsHistory[1].timestamp = Timestamp(3)
    /\ vitalsHistory[MAX_HISTORY_LENGTH].timestamp = Timestamp(MAX_HISTORY_LENGTH + 2)
    /\ vitalsHistory[1].hr = Normal.hr

\* C6 as stated: in the state after handleDisconnect the history is empty.
C6_DisconnectClearsHistory ==
    [][DisconnectStep => vitalsHistory' = <<>>]_vars

\* C6 amended: handleDisconnect leaves the history as it is; the history is
\* emptied by the next handleConnect.
C6_HistoryClearedOnConnect ==
    [][/\ DisconnectStep => vitalsHistory' = vitalsHistory
       /\ connects' # connects => vitalsHistory' = <<>>]_vars

\* disconnected after a session that produced readings
C6_Witness ==
    /\ connectionStatus = "disconnected"
    /\ Len(vitalsHistory) > 0
    /\ connects > 0

\* C7: after handleDisconnect no timer callback changes the state: the status
\* stays 'disconnected' and no reading is produced until the next handleConnect.
C7_DisconnectCancelsTimers ==
    [][(connectionStatus = "disconnected" /\ connects' = connects) =>
         /\ connectionStatus' = "disconnected"
         /\ UNCHANGED <<vitals, vitalsHistory, clock>>]_vars

\* the threshold test of the claim
OutOfRange(v) ==
    v.hr < 50 \/ v.hr > 130 \/ v.systolic > 180 \/ v.diastolic > 120 \/ v.spo2 < 90

\* C8 as stated: isCritical(v) is true exactly when v is not the all-zero
\* placeholder and a threshold is crossed.
C8_CriticalUnlessAllZero ==
    verdict # "unset" =>
        ((verdict = "critical") <=> (probe # Placeholder /\ OutOfRange(probe)))

\* C8 amended: isCritical(v) is true exactly when not (hr = 0 and spo2 = 0)
\* and a threshold is crossed.
C8_CriticalUnlessHrAndSpo2Zero ==
    verdict # "unset" =>
        ((verdict = "critical") <=>
            (~(probe.hr = 0 /\ probe.spo2 = 0) /\ OutOfRange(probe)))

\* a reading with hr = 0 and spo2 = 0 that is not the placeholder was classified
C8_Witness ==
    /\ verdict = "normal"
    /\ probe.hr = 0
    /\ probe.spo2 = 0
    /\ probe.systolic = 181

\* the tick delivers the first critical reading of a session whose automatic
\* alert has not been sent
FirstCriticalTick ==
    /\ clock' # clock
    /\ isCritical(vitals')
    /\ ~criticalSeen
    /\ ~autoAlertSentRef

AutoStartedForReading ==
    \E c \in NewCalls : ~c.isManual /\ c.v = vitals'

\* C9 as stated: the first critical reading of such a session starts an
\* automatic generation for that reading, also while a generation is in flight.
C9_FirstCriticalStartsAutoAlert ==
    [][FirstCriticalTick => AutoStartedForReading]_vars

\* C9 amended: the first critical reading of such a session starts an automatic
\* generation for that reading if no generation is in flight when it arrives;
\* if one is in flight, the tick starts none.
C9_FirstCriticalStartsAutoAlertUnlessInFlight ==
    [][FirstCriticalTick =>
         IF isSendingAlert THEN NewCalls = {} ELSE AutoStartedForReading]_vars

\* the only call so far is the automatic one for the current reading
C9_Witness ==
    /\ starts = 1
    /\ autoStartsInSession = 1
    /\ \E c \in pendingCalls : ~c.isManual /\ c.v = vitals

\* C10: every automatic start happens while connected, for the current vitals,
\* which are critical and not the placeholder.
C10_AutoStartOnlyWhenCritical ==
    [][\A c \in NewCalls :
          ~c.isManual =>
              /\ connectionStatus' = "connected"
              /\ c.v = vitals'
              /\ vitals' # Placeholder
              /\ OutOfRange(vitals')]_vars

\* an automatic call started by the render that followed a manual call's response
C10_Witness ==
    /\ alertMessage = ResponseText
    /\ \E c \in pendingCalls : ~c.isManual /\ OutOfRange(c.v)

\* C11: once alertMessage is non-null it stays non-null through every tick,
\* completion and disconnect; only handleConnect makes it null again.
C11_MessageStaysUntilConnect ==
    [][(alertMessage # NullMsg /\ alertMessage' = NullMsg) => connects' # connects]_vars

\* the error text is still there, after a disconnect, while a later automatic
\* call is in flight
C11_Witness ==
    /\ alertMessage = AlertGenerationError
    /\ connectionStatus = "disconnected"
    /\ \E c \in pendingCalls : ~c.isManual

\* C12 as stated: during one run of consecutive critical readings of a connected
\* session, alertMessage is set from a generation result at most once, manual
\* and automatic generations counted together.
C12_OneMessagePerEpisode == alertsInEpisode <= 1

\* C12 amended: between a handleConnect and the next one, alertMessage is set
\* from the result of an automatic generation at most once.
C12_OneAutomaticMessagePerSession == autoAlertsInSession <= 1

\* a manual and an automatic message were shown in the same critical episode
C12_Witness ==
    /\ autoAlertsInSession = 1
    /\ alertsInEpisode = 2
    /\ autoAlertSentRef

\* C13: when the generation call rejects, alertMessage becomes the error text,
\* isSendingAlert is set back to false (it is true after the step only if the
\* render that follows started a new call), and the sent flag, the status, the
\* vitals and the history are left as they were.
C13_RejectionSurfacedAsValue ==
    [][GenerationRejects =>
         /\ alertMessage' = AlertGenerationError
         /\ isSendingAlert' => NewCalls # {}
         /\ pendingCalls \ pendingCalls' # {}
         /\ UNCHANGED <<autoAlertSentRef, connectionStatus, vitals, vitalsHistory>>]_vars

\* a manual call was rejected and nothing was started after it
C13_Witness ==
    /\ alertMessage = AlertGenerationError
    /\ ~isSendingAlert
    /\ pendingCalls = {}
    /\ starts = 1
    /\ autoStartsInSession = 0
    /\ connectionStatus = "connected"

CallPending(i) == \E c \in pendingCalls : c.id = i

\* the call is over, a message or the error text is set, and isSendingAlert is
\* false unless a later call has been started
CallDone(i) ==
    /\ starts >= i
    /\ ~CallPending(i)
    /\ alertMessage # NullMsg
    /\ isSendingAlert => \E c \in pendingCalls : c.id > i

\* C14: if the external call eventually resolves or rejects, every started
\* generation is followed by a state where its call is over, alertMessage is
\* non-null and isSendingAlert is false (or true for a later call). The last
\* call the bound MaxStarts allows is left out: the bound can hold back its
\* completion.
C14_EveryGenerationTerminates ==
    \A i \in 1..(MaxStarts - 1) : CallPending(i) ~> CallDone(i)

\* the second call of a run has completed with a message
C14_Witness ==
    /\ starts = 2
    /\ CallDone(2)
    /\ alertMessage = ResponseText

\* C15: a manual generation starts only from a state where the monitor is
\* connected, no message is shown and no generation is loading, and it is for
\* the current vitals, critical or not; a click with isSendingAlert false
\* starts one; a click while isSendingAlert is true changes nothing (no call,
\* no notification, alertMessage unchanged).
C15_ManualTrigger ==
    [][/\ \A c \in NewCalls :
             c.isManual =>
                /\ connectionStatus = "connected"
                /\ alertMessage = NullMsg
                /\ ~isSendingAlert
                /\ c.v = vitals
       /\ ManualAlert =>
             /\ \E c \in NewCalls : c.isManual /\ c.v = vitals
             /\ isSendingAlert'
             /\ alertMessage' = NullMsg
       /\ ManualAlertWhileSending =>
             UNCHANGED vars]_vars

\* a manual generation for a reading that is not critical is loading, so a
\* further click reaches the in-flight guard
C15_Witness ==
    /\ connectionStatus = "connected"
    /\ isSendingAlert
    /\ alertMessage = NullMsg
    /\ \E c \in pendingCalls : c.isManual /\ c.v = Normal /\ ~isCritical(c.v)
    /\ notifications = starts

\* C16: the interval is installed only while the status is 'connected', a tick
\* fires only in a connected state, and a step from a 'disconnected' or
\* 'connecting' state produces no reading: vitals and vitalsHistory stay as
\* they are or are reset by handleConnect.
C16_ReadingsOnlyWhileConnected ==
    [][/\ monitorIntervalRef => connectionStatus = "connected"
       /\ Tick => connectionStatus = "connected"
       /\ connectionStatus # "connected" =>
             /\ clock' = clock
             /\ vitals' \in {vitals, Placeholder}
             /\ vitalsHistory' \in {vitalsHistory, <<>>}]_vars

\* readings were produced in the first session; the monitor is connecting
\* again and no interval is installed
C16_Witness ==
    /\ connectionStatus = "connecting"
    /\ connects = 2
    /\ clock >= 2
    /\ ~monitorIntervalRef

InRange(v) ==
    /\ v.hr \in 45..140
    /\ v.systolic \in 85..190
    /\ v.diastolic \in 55..130
    /\ v.spo2 \in 88..100

\* C17: every history entry has hr in 45..140, systolic in 85..190, diastolic
\* in 55..130 and spo2 in 88..100, and the current vitals are such a reading or
\* the all-zero placeholder.
C17_ReadingsWithinRanges ==
    /\ \A i \in 1..Len(vitalsHistory) : InRange(vitalsHistory[i])
    /\ vitals = Placeholder \/ InRange(vitals)

\* the least reading was produced and then the greatest one
C17_Witness ==
    /\ Len(vitalsHistory) = 2
    /\ vitalsHistory[1].hr = 45 /\ vitalsHistory[1].spo2 = 88
    /\ vitalsHistory[1].systolic = 85 /\ vitalsHistory[1].diastolic = 55
    /\ vitals = Reading(140, 190, 130, 100)

\* the body the claim gives for a reading
ClaimedBody(v) ==
    CASE v.hr < 50 \/ v.hr > 130 ->
            [text |-> "Critical Heart Rate", values |-> <<v.hr>>]
      [] ~(v.hr < 50 \/ v.hr > 130) /\ v.spo2 < 90 ->
            [text |-> "Low Oxygen Saturation", values |-> <<v.spo2>>]
      [] ~(v.hr < 50 \/ v.hr > 130) /\ ~(v.spo2 < 90)
            /\ (v.systolic > 180 \/ v.diastolic > 120) ->
            [text |-> "High Blood Pressure", values |-> <<v.systolic, v.diastolic>>]
      [] OTHER ->
            [text |-> "One or more vitals are critical", values |-> <<>>]

\* C18: a step starts at most one generation and a start raises at most one
\* notification; one is raised only where service workers are supported and
\* Notification.permission is 'granted'; its body is the heart-rate text if
\* hr < 50 or hr > 130, else the SpO2 text if spo2 < 90, else the blood-pressure
\* text if systolic > 180 or diastolic > 120, else the generic text.
C18_NotificationOfAStart ==
    [][/\ Cardinality(NewCalls) <= 1
       /\ notifications' - notifications \in {0, 1}
       /\ notifications' - notifications <= Cardinality(NewCalls)
       /\ notifications' # notifications =>
             serviceWorkerSupported /\ browserPermission = "granted"
       /\ \A c \in NewCalls :
             /\ Len(shown') = notifications' - notifications
             /\ shown' \in {<<>>, <<ClaimedBody(c.v)>>}]_vars

\* a reading with spo2 below 90 and systolic above 180 raised the SpO2 text
C18_Witness ==
    /\ notifications = 1
    /\ shown = <<[text |-> "Low Oxygen Saturation", values |-> <<89>>]>>
    /\ \E c \in pendingCalls : c.v.systolic = 181 /\ c.v.hr = 50 /\ ~c.isManual

\* the indices of vitalsHistory whose timestamp is the label
Positions(label) ==
    { i \in 1..Len(vitalsHistory) : <<vitalsHistory[i].timestamp>> = label }

First(S) == CHOOSE i \in S : \A j \in S : i <= j

\* both labels are set and found at two distinct indices
SelectionZooms ==
    /\ refAreaLeft # NoLabel
    /\ refAreaRight # NoLabel
    /\ Positions(refAreaLeft) # {}
    /\ Positions(refAreaRight) # {}
    /\ First(Positions(refAreaLeft)) # First(Positions(refAreaRight))

\* C19: on mouse up, if both labels are set and found in vitalsHistory at two
\* distinct indices, zoomDomain becomes [timestamp at the smaller index,
\* timestamp at the larger index]; otherwise zoomDomain is unchanged; in all
\* cases both labels are cleared.
C19_ZoomOnMouseUp ==
    [][ChartMouseUp =>
         /\ refAreaLeft' = NoLabel
         /\ refAreaRight' = NoLabel
         /\ IF SelectionZooms
            THEN LET l == First(Positions(refAreaLeft))
                     r == First(Positions(refAreaRight))
                 IN  /\ zoomDomain'.from =
                           <<vitalsHistory[IF l < r THEN l ELSE r].timestamp>>
                     /\ zoomDomain'.to =
                           <<vitalsHistory[IF l < r THEN r ELSE l].timestamp>>
            ELSE zoomDomain' = zoomDomain]_vars

\* a selection from the third point back to the first has been zoomed
C19_Witness ==
    /\ Len(vitalsHistory) = 3
    /\ zoomDomain = [from |-> <<vitalsHistory[1].timestamp>>,
                     to |-> <<vitalsHistory[3].timestamp>>]
    /\ refAreaLeft = NoLabel
    /\ refAreaRight = NoLabel

\* the selection holds a label of a history that handleConnect has cleared
StaleSelection ==
    /\ connectionStatus = "connected"
    /\ Len(vitalsHistory) > 1
    /\ refAreaLeft # NoLabel
    /\ refAreaRight # NoLabel
    /\ Positions(refAreaLeft) = {}

(***************************************************************************)
(* Properties of the medication reminders.                                 *)
(***************************************************************************)
\* C20: a reminder is shown only when the notification permission is
\* 'granted' and the list holds its medication with status 'Active', the
\* current weekday in its days and the current HH:MM in its reminderTimes.
C20_ReminderOnlyWhenDue ==
    \A n \in shownNow :
        /\ browserPermission = "granted"
        /\ \E i \in 1..Len(meds) :
              /\ meds[i].id = n.id
              /\ meds[i].status = "Active"
              /\ currentDay(now) \in meds[i].days
              /\ currentTime(now) \in meds[i].reminderTimes

(***************************************************************************)
(* Properties of the global search.                                        *)
(***************************************************************************)
\* C21: a change of the query cancels the pending search, so at most one
\* search is pending and it is the one of the current query; a search that
\* runs writes the results of the current query; and the results are empty
\* whenever the query has fewer than 2 characters.
C21_DebouncedSearch ==
    [][/\ \A q \in searchTimers : q = query
       /\ Len(query) < 2 => results = <<>> /\ searchTimers = {}
       /\ query' # query => searchTimers' \subseteq {query'}
       /\ SearchTimeout => results' = search(query)]_vars

\* a pending search was cancelled by a later query, whose own search has run
\* and found the appointments and the record
C21_Witness ==
    /\ superseded
    /\ searchTimers = {}
    /\ query = <<"D", "r">>
    /\ Len(results) = 3
    /\ results = search(query)

(***************************************************************************)
(* Properties of the service worker.                                       *)
(***************************************************************************)
\* C22: fetches are answered cache-first: an event whose request a cache
\* holds a match for makes no network request and is answered with the
\* cached response; any other event is answered with the outcome of one
\* network request; and no step of the fetch listener changes a cache.
C22_CacheFirst ==
    [][/\ \A i \in 1..Len(fetchEvents') :
            LET e == fetchEvents'[i]
            IN  /\ e.held => e.networkRequests = 0
                /\ e.stage = "responded" =>
                      IF e.held
                      THEN e.response = <<CachedResponse(e.request)>>
                      ELSE /\ e.networkRequests = 1
                           /\ e.response[1].from = "network"
                           /\ e.response[1].url = e.request
       /\ (FetchEvent \/ MatchThen \/ NetworkSettles) => cacheStorage' = cacheStorage]_vars

\* one event answered from the cache and one from the network
C22_Witness ==
    /\ Len(fetchEvents) = 2
    /\ fetchEvents[1].stage = "responded"
    /\ fetchEvents[1].held
    /\ fetchEvents[1].response = <<CachedResponse("/pills.png")>>
    /\ fetchEvents[2].stage = "responded"
    /\ ~fetchEvents[2].held
    /\ fetchEvents[2].response = <<NetworkResponse("/index.css", TRUE)>>
    /\ fetchEvents[2].networkRequests = 1

(***************************************************************************)
(* Properties of the mood log.                                             *)
(***************************************************************************)
\* the entries of a history for the dates other than day
OtherDates(history, day) ==
    LET other(h) == h.date # day
    IN  SelectSeq(history, other)

\* C23: once a mood has been selected, moodHistory has at most one entry for
\* each date, its entry for today is the latest selection, the item
\* 'moodHistory' of localStorage is the JSON text of the state, and a
\* selection leaves the entries of the other dates as they were.
C23_OneMoodPerDay ==
    [][/\ lastSelected' # <<>> =>
            /\ \A i, j \in 1..Len(moodHistory') :
                  moodHistory'[i].date = moodHistory'[j].date => i = j
            /\ \A i \in 1..Len(moodHistory') :
                  moodHistory'[i].date = today' => lastSelected' = <<moodHistory'[i]>>
            /\ storedMoods' = <<stringify(moodHistory')>>
       /\ HandleMoodSelect =>
            /\ OtherDates(moodHistory', today) = OtherDates(moodHistory, today)
            /\ \E i \in 1..Len(moodHistory') : <<moodHistory'[i]>> = lastSelected']_vars

\* a second selection on the third day replaced the first one of that day and
\* kept the entries of the two days before
C23_Witness ==
    /\ today = 3
    /\ Len(moodHistory) = 3
    /\ moodHistory[1] = [mood |-> "Sad", date |-> 1]
    /\ moodHistory[2] = [mood |-> "Good", date |-> 2]
    /\ moodHistory[3] = [mood |-> "Happy", date |-> 3]
    /\ lastSelected = <<moodHistory[3]>>
    /\ storedMoods = <<stringify(moodHistory)>>

(***************************************************************************)
(* Properties of the sessions of the monitor.                              *)
(***************************************************************************)
\* C24: every session starts clean: in a step that makes connectionStatus
\* "connected", vitalsHistory is empty, vitals is the placeholder,
\* alertMessage is null and the auto-alert-sent flag is false afterwards.
C24_SessionStartsClean ==
    [][connectionStatus # "connected" /\ connectionStatus' = "connected" =>
          /\ vitalsHistory' = <<>>
          /\ vitals' = Placeholder
          /\ alertMessage' = NullMsg
          /\ ~autoAlertSentRef']_vars

\* the calls whose continuation runs in this step
CompletedCalls == pendingCalls \ pendingCalls'

\* C25: the continuation of a generation call started before the latest
\* handleConnect changes neither alertMessage nor the auto-alert-sent flag.
C25_NoLeakAcrossSessions ==
    [][\A c \in CompletedCalls :
          c.session < connects =>
              /\ alertMessage' = alertMessage
              /\ autoAlertSentRef' = autoAlertSentRef]_vars

\* C26: vitals is the reading of the last entry of vitalsHistory, and the
\* placeholder when vitalsHistory is empty.
C26_VitalsAgreeWithHistory ==
    IF vitalsHistory = <<>>
    THEN vitals = Placeholder
    ELSE LET last == vitalsHistory[Len(vitalsHistory)]
         IN  vitals = Reading(last.hr, last.systolic, last.diastolic, last.spo2)

\* a second session, after a first one with readings, was emptied by
\* handleConnect and has received a critical reading of its own
C26_Witness ==
    /\ connects = 2
    /\ connectionStatus = "connected"
    /\ Len(vitalsHistory) = 1
    /\ clock = 2
    /\ isCritical(vitals)
    /\ vitalsHistory[1].hr = vitals.hr
    /\ vitalsHistory[1].spo2 = vitals.spo2

\* the confirmation panel of l.329-333
AlertPanel == connectionStatus = "connected" /\ alertMessage # NullMsg

\* C27: the confirmation panel appears only in a step in which a generation
\* call of the current session resolved, with the generated message.
C27_PanelOnlyAfterSuccess ==
    [][~AlertPanel /\ AlertPanel' =>
          /\ alertMessage' = ResponseText
          /\ \E c \in CompletedCalls : c.session = connects']_vars

====
